---------------------------- MODULE Spec2Model ----------------------------
(***************************************************************************)
(* Model of vdppdf.py, a Streamlit script that builds a double-sided PDF:  *)
(* every page of an N-page content PDF is merged onto page 1 of a master   *)
(* PDF (the front), and is followed by a copy of master page 2 carrying a  *)
(* running number (the back).                                              *)
(*                                                                         *)
(* Python objects are references, so pages live in a heap and readers and  *)
(* writers hold page ids.  Real numbers (PDF points) are rationals         *)
(* <<numerator, denominator>>; page boxes and widget values are integers.  *)
(***************************************************************************)
EXTENDS Integers, Sequences, FiniteSets, TLC

VARIABLES
    pc,               \* "idle" | "loop" (head of the for loop) | "back"
    outcome,          \* what the script rendered: "none" | "upload_error" |
                      \* "invalid_master" | "exception" | "success"
    exc,              \* the exception shown by st.exception(e), "" when none
    download,         \* the documents offered by st.download_button
    master_pdf_file,  \* the two st.file_uploader widgets
    multi_pdf_file,
    front_x, front_y, \* the st.number_input widgets
    start_num, x_pos, y_pos,
    heap,             \* page id -> page object
    master_reader,    \* page ids of PdfReader(master_pdf_file).pages
    multi_reader,     \* page ids of PdfReader(multi_pdf_file).pages
    writer,           \* page ids added to the output PdfWriter
    number,           \* the running back-side number
    i,                \* content pages the for loop has finished
    fx, fy,           \* the front offset computed for the current page
    env,              \* which merge calls the PDF library accepted for the
                      \* page composed last
    prior             \* history: an earlier button press added pages

vars == <<pc, outcome, exc, download, master_pdf_file, multi_pdf_file,
          front_x, front_y, start_num, x_pos, y_pos, heap, master_reader,
          multi_reader, writer, number, i, fx, fy, env, prior>>

----------------------------------------------------------------------------
(* Bounds of the model *)

\* Largest number of pages of the content PDF.
MaxPages == 2

----------------------------------------------------------------------------
(* Numbers *)

\* A float with an integral value.
Real(n) == <<n, 1>>

Zero == Real(0)

\* n / 2 as a float: exact halves.
Half(n) == IF n % 2 = 0 THEN <<n \div 2, 1>> ELSE <<n, 2>>

\* Sum of two floats whose denominators are 1 or 2.
RAdd(a, b) ==
    LET n == a[1] * (2 \div a[2]) + b[1] * (2 \div b[2]) IN Half(n)

Digit(d) == <<"0", "1", "2", "3", "4", "5", "6", "7", "8", "9">>[d + 1]

\* str(number) for a positive int: its decimal characters.
RECURSIVE str(_)
str(n) == IF n < 10 THEN <<Digit(n)>> ELSE Append(str(n \div 10), Digit(n % 10))


----------------------------------------------------------------------------
(* Pages, files and the PDF library *)

\* A page without a /MediaBox: reading page.mediabox raises.
NoBox == <<>>

HasBox(p) == p.box # NoBox

\* An id of the heap that holds no object.
NullPage == [box |-> NoBox, ops |-> <<>>]

\* One drawing instruction of a page: the artwork of a master or content
\* page, or a text drawn by the canvas.
Artwork(kind, n) ==
    [kind |-> kind, n |-> n, text |-> <<>>, font |-> "", size |-> 0,
     x |-> Zero, y |-> Zero]

\* The bytes of a PDF whose k-th page has box boxes[k] and the artwork of
\* page k of that document.
PdfBytes(kind, boxes) ==
    [header |-> "%PDF",
     objs |-> [k \in 1..Len(boxes) |-> <<boxes[k], <<Artwork(kind, k)>>>>]]

\* Bytes that are no PDF.
JunkBytes == [header |-> "junk", objs |-> <<>>]

\* An st.file_uploader value: None, or the uploaded bytes.
None == [present |-> FALSE, header |-> "", objs |-> <<>>]

Uploaded(b) == [present |-> TRUE, header |-> b.header, objs |-> b.objs]

\* PdfReader(stream): raises unless the stream is a PDF; .pages otherwise.
PdfReader(f) ==
    [ok |-> f.header = "%PDF",
     pages |-> [k \in 1..Len(f.objs) |->
                   [box |-> f.objs[k][1], ops |-> f.objs[k][2]]]]

\* PdfWriter.write(stream) of the given page objects.
PdfWrite(pages) ==
    [header |-> "%PDF",
     objs |-> [k \in 1..Len(pages) |-> <<pages[k].box, pages[k].ops>>]]

\* page.merge_translated_page(page2, tx, ty): page2's drawing instructions,
\* moved by (tx, ty), are added after the page's own.
MergeTranslated(base, overlay, tx, ty) ==
    [base EXCEPT !.ops = @ \o
        [k \in 1..Len(overlay.ops) |->
            [overlay.ops[k] EXCEPT !.x = RAdd(@, tx), !.y = RAdd(@, ty)]]]

\* page.merge_page(page2): the same without a move.
MergePage(base, overlay) ==
    [base EXCEPT !.ops = @ \o overlay.ops]

\* canvas.Canvas(num_stream, pagesize=(w, h)); setFont("Helvetica", 20);
\* drawString(x, y, text); showPage(); save(): the bytes of a one-page PDF.
FontName == "Helvetica"

FontSize == 20

Canvas(w, h, x, y, text) ==
    [header |-> "%PDF",
     objs |-> << <<  <<w, h>>,
                     <<[kind |-> "text", n |-> 0, text |-> text,
                        font |-> FontName, size |-> FontSize,
                        x |-> Real(x), y |-> Real(y)]>>  >> >>]

\* What the library does with the two merge calls for one overlay.
MergeEnvs ==
    { [translated |-> t, plain |-> p] : t \in BOOLEAN, p \in BOOLEAN }

----------------------------------------------------------------------------
(* The heap *)

MasterId(k) == k
ContentId(k) == 10 + k
FrontId(k) == 20 + k
StampId(k) == 30 + k
BackId(k) == 40 + k

MasterIds == {MasterId(k) : k \in 1..3}

Ids == MasterIds \cup
       UNION { {ContentId(k), FrontId(k), StampId(k), BackId(k)} :
               k \in 1..MaxPages }

EmptyHeap == [id \in Ids |-> NullPage]

Put(h, id, p) == [h EXCEPT ![id] = p]

\* The objects a reader's .pages hold, at the ids first, first + 1, ...
Load(h, pages, first) ==
    [id \in Ids |->
        IF id - first + 1 \in 1..Len(pages) THEN pages[id - first + 1]
        ELSE h[id]]

Deref(h, id) == IF id \in Ids THEN h[id] ELSE NullPage

PagesOf(h, ids) == [k \in 1..Len(ids) |-> Deref(h, ids[k])]


----------------------------------------------------------------------------
(* The inputs the model draws *)

MasterBoxSeqs ==
    { <<>>,
      << <<200, 300>> >>,
      << <<200, 300>>, <<200, 300>> >>,
      << <<210, 297>>, <<200, 300>> >>,
      << <<210, 297>>, <<200, 300>>, <<200, 300>> >>,
      << <<200, 300>>, NoBox >>,
      << NoBox, <<200, 300>> >> }

ContentBoxes == { <<180, 280>>, <<181, 320>>, NoBox }

ContentBoxSeqs == UNION { [1..n -> ContentBoxes] : n \in 0..MaxPages }

MasterFiles ==
    {None, Uploaded(JunkBytes)} \cup
    { Uploaded(PdfBytes("master", b)) : b \in MasterBoxSeqs }

ContentFiles ==
    {None, Uploaded(JunkBytes)} \cup
    { Uploaded(PdfBytes("content", b)) : b \in ContentBoxSeqs }

\* Values of the two front position widgets (default -1, -1).
FrontCoords ==
    { <<-1, -1>>, <<-1, 7>>, <<0, -1>>, <<-2, 7>>, <<7, 0>>, <<7, -2>> }

\* Values of the start number (min_value 1) and number position widgets
\* (default 1, 50, 50).
StampParams ==
    { [start |-> 1, x |-> 50, y |-> 50], [start |-> 9, x |-> 10, y |-> 20] }

----------------------------------------------------------------------------
(* The steps of the script *)

\* Variant: a one-page master is let through.
TooFewPagesOffByOne(n) == n < 1

\* len(master_reader.pages) < 2
TooFewPages(n) == n < 2

\* master_front = master_reader.pages[0]; master_back = master_reader.pages[1]
master_front == master_reader[1]

master_back == master_reader[2]

\* writer = PdfWriter()
PdfWriter == <<>>

\* Variant: the page is not added.
add_page_dropped(w, id) == w

\* Variant: the page is put first.
add_page_first(w, id) == <<id>> \o w

\* writer.add_page(page)
add_page(w, id) == Append(w, id)

\* Variant: the loop stops one page early.
ExhaustedEarly(done, n) == done >= n - 1

\* The for loop has no page left.
Exhausted(done, n) == done >= n

\* Variant: 0 is taken for the auto-center value too.
IsExplicitStrict(v) == v > 0

\* front_x >= 0: the widget value is used as it is.
IsExplicit(v) == v >= 0

\* Variant: floor division.
CenterFloorDiv(m, p) == Real((m - p) \div 2)

\* (mw - pw) / 2
Center(m, p) == Half(m - p)

\* fx = front_x if front_x >= 0 else (mw - pw) / 2, and the same for fy.
Place(explicit, m, p) ==
    IF IsExplicit(explicit) THEN Real(explicit) ELSE Center(m, p)

\* Variant: the template itself is merged into.
CopyTargetAlias(template, fresh) == template

\* The object the template copy is: the page parsed back from temp_bytes.
CopyTarget(template, fresh) == fresh

\* temp_writer.add_page(t); temp_writer.write(temp_bytes);
\* PdfReader(temp_bytes).pages[0]
Rebuild(t) == PdfReader(PdfWrite(<<t>>)).pages[1]

\* Variant: no second attempt after the translated merge fails.
FrontLadderNoFallback(base, overlay, tx, ty, e) ==
    IF e.translated THEN MergeTranslated(base, overlay, tx, ty) ELSE base

\* try merge_translated_page(page, fx, fy) except: try merge_page(page)
\* except: pass
FrontLadder(base, overlay, tx, ty, e) ==
    IF e.translated THEN MergeTranslated(base, overlay, tx, ty)
    ELSE IF e.plain THEN MergePage(base, overlay)
    ELSE base

\* try merge_page(num_page) except: try merge_translated_page(num_page, 0, 0)
\* except: pass
BackLadder(base, overlay, e) ==
    IF e.plain THEN MergePage(base, overlay)
    ELSE IF e.translated THEN MergeTranslated(base, overlay, Zero, Zero)
    ELSE base

\* Variant: the number is not advanced.
IncrementForgotten(n) == n

\* number += 1
Increment(n) == n + 1

\* The script stops: nothing more is rendered.
Stop(o, e) == pc' = "idle" /\ outcome' = o /\ exc' = e

\* History, not program state: whether an earlier button press of this
\* session added pages to its writer.
NextPrior == prior \/ (outcome # "none" /\ writer # <<>>)

\* Variant: the number starts at the widget's default.
InitialNumberDefault(start) == 1

\* number = start_num
InitialNumber(start) == start

Init ==
    /\ pc = "idle" /\ outcome = "none" /\ exc = "" /\ download = <<>>
    /\ master_pdf_file = None /\ multi_pdf_file = None
    /\ front_x = -1 /\ front_y = -1
    /\ start_num = 1 /\ x_pos = 50 /\ y_pos = 50
    /\ heap = EmptyHeap /\ master_reader = <<>> /\ multi_reader = <<>>
    /\ writer = <<>> /\ number = 0 /\ i = 0
    /\ fx = Zero /\ fy = Zero
    /\ env = [translated |-> TRUE, plain |-> TRUE]
    /\ prior = FALSE

\* The button is pressed: the script runs again, in a new namespace and with
\* the widget values the session holds, lines 15-63 up to the head of the for
\* loop.  Names the run does not reach stay unbound (<<>>, 0).
Click ==
    /\ pc = "idle"
    /\ LET mr == PdfReader(master_pdf_file)
           cr == PdfReader(multi_pdf_file)
           stage ==
               IF ~master_pdf_file.present \/ ~multi_pdf_file.present
               THEN "upload_error"
               ELSE IF ~mr.ok THEN "master_unreadable"
               ELSE IF ~cr.ok THEN "content_unreadable"
               ELSE IF TooFewPages(Len(mr.pages)) THEN "invalid_master"
               ELSE IF Len(mr.pages) < 2 THEN "index_error"
               ELSE "run"
           h1 == IF stage \in {"upload_error", "master_unreadable"}
                 THEN EmptyHeap ELSE Load(EmptyHeap, mr.pages, MasterId(1))
           h2 == IF stage \in {"invalid_master", "index_error", "run"}
                 THEN Load(h1, cr.pages, ContentId(1)) ELSE h1
       IN  /\ heap' = h2
           /\ master_reader' =
                 IF stage \in {"upload_error", "master_unreadable"}
                 THEN <<>>
                 ELSE [k \in 1..Len(mr.pages) |-> MasterId(k)]
           /\ multi_reader' =
                 IF stage \in {"invalid_master", "index_error", "run"}
                 THEN [k \in 1..Len(cr.pages) |-> ContentId(k)]
                 ELSE <<>>
           /\ writer' = IF stage \in {"index_error", "run"}
                        THEN PdfWriter ELSE <<>>
           /\ number' = IF stage = "run" THEN InitialNumber(start_num) ELSE 0
           /\ pc' = IF stage = "run" THEN "loop" ELSE "idle"
           /\ outcome' =
                 CASE stage = "run" -> "none"
                   [] stage = "upload_error" -> "upload_error"
                   [] stage = "invalid_master" -> "invalid_master"
                   [] OTHER -> "exception"
           /\ exc' =
                 CASE stage = "master_unreadable" -> "PdfReadError"
                   [] stage = "content_unreadable" -> "PdfReadError"
                   [] stage = "index_error" -> "IndexError"
                   [] OTHER -> ""
    /\ download' = <<>> /\ i' = 0 /\ fx' = Zero /\ fy' = Zero
    /\ env' = [translated |-> TRUE, plain |-> TRUE]
    /\ prior' = NextPrior
    /\ UNCHANGED <<master_pdf_file, multi_pdf_file, front_x, front_y,
                   start_num, x_pos, y_pos>>

\* The front page of content page i + 1: lines 66-92.
FrontPage ==
    /\ pc = "loop"
    /\ ~Exhausted(i, Len(multi_reader))
    /\ LET k == i + 1
           page == multi_reader[k]
           tid == CopyTarget(master_front, FrontId(k))
           h1 == Put(heap, tid, Rebuild(heap[master_front]))
       IN  \/ /\ ~HasBox(h1[master_front]) \/ ~HasBox(h1[page])
              /\ heap' = h1
              /\ Stop("exception", "NoMediaBox")
              /\ UNCHANGED <<writer, fx, fy, env>>
           \/ /\ HasBox(h1[master_front]) /\ HasBox(h1[page])
              /\ \E e \in MergeEnvs :
                    LET mw == h1[master_front].box[1]
                        mh == h1[master_front].box[2]
                        pw == h1[page].box[1]
                        ph == h1[page].box[2]
                        nfx == Place(front_x, mw, pw)
                        nfy == Place(front_y, mh, ph)
                        merged_front ==
                            FrontLadder(h1[tid], h1[page], nfx, nfy, e)
                    IN  /\ heap' = Put(h1, tid, merged_front)
                        /\ writer' = add_page(writer, tid)
                        /\ fx' = nfx /\ fy' = nfy /\ env' = e
              /\ pc' = "back"
              /\ UNCHANGED <<outcome, exc>>
    /\ UNCHANGED <<download, master_pdf_file, multi_pdf_file, front_x, front_y,
                   start_num, x_pos, y_pos, master_reader, multi_reader,
                   number, i, prior>>

\* The numbered back page of content page i + 1: lines 94-128.
BackPage ==
    /\ pc = "back"
    /\ LET k == i + 1
           mb == heap[master_back]
       IN  \/ /\ ~HasBox(mb)
              /\ Stop("exception", "NoMediaBox")
              /\ UNCHANGED <<heap, writer, number, i, env>>
           \/ /\ HasBox(mb)
              /\ \E e \in MergeEnvs :
                    LET num_stream ==
                            Canvas(mb.box[1], mb.box[2], x_pos, y_pos,
                                   str(number))
                        num_page == PdfReader(num_stream).pages[1]
                        h1 == Put(heap, StampId(k), num_page)
                        tid == CopyTarget(master_back, BackId(k))
                        h2 == Put(h1, tid, Rebuild(h1[master_back]))
                        merged_back == BackLadder(h2[tid], num_page, e)
                    IN  /\ heap' = Put(h2, tid, merged_back)
                        /\ writer' = add_page(writer, tid)
                        /\ env' = e
              /\ number' = Increment(number)
              /\ i' = i + 1
              /\ pc' = "loop"
              /\ UNCHANGED <<outcome, exc>>
    /\ UNCHANGED <<download, master_pdf_file, multi_pdf_file, front_x, front_y,
                   start_num, x_pos, y_pos, master_reader, multi_reader,
                   fx, fy, prior>>

\* After the loop: lines 130-140, the output is written and offered.
Finish ==
    /\ pc = "loop"
    /\ Exhausted(i, Len(multi_reader))
    /\ LET out_bytes == PdfWrite(PagesOf(heap, writer))
       IN  download' = Append(download, out_bytes)
    /\ Stop("success", "")
    /\ UNCHANGED <<master_pdf_file, multi_pdf_file, front_x, front_y,
                   start_num, x_pos, y_pos, heap, master_reader, multi_reader,
                   writer, number, i, fx, fy, env, prior>>

\* Streamlit runs the script again without the button pressed (lines 15-46,
\* 145-146), after a click on the download button or after the user changed
\* one input: what the last run rendered is gone, the new namespace binds
\* none of the run's names, and the widgets return what the session holds.
ScriptStart ==
    /\ pc = "idle"
    /\ outcome' = "none" /\ exc' = "" /\ download' = <<>>
    /\ heap' = EmptyHeap /\ master_reader' = <<>> /\ multi_reader' = <<>>
    /\ writer' = <<>> /\ number' = 0
    /\ i' = 0 /\ fx' = Zero /\ fy' = Zero
    /\ env' = [translated |-> TRUE, plain |-> TRUE]
    /\ prior' = NextPrior
    /\ \/ UNCHANGED <<master_pdf_file, multi_pdf_file, front_x, front_y,
                      start_num, x_pos, y_pos>>
       \/ /\ \E mf \in MasterFiles \ {master_pdf_file} :
                master_pdf_file' = mf
          /\ UNCHANGED <<multi_pdf_file, front_x, front_y,
                         start_num, x_pos, y_pos>>
       \/ /\ \E cf \in ContentFiles \ {multi_pdf_file} :
                multi_pdf_file' = cf
          /\ UNCHANGED <<master_pdf_file, front_x, front_y,
                         start_num, x_pos, y_pos>>
       \/ /\ \E fc \in FrontCoords \ {<<front_x, front_y>>} :
                front_x' = fc[1] /\ front_y' = fc[2]
          /\ UNCHANGED <<master_pdf_file, multi_pdf_file,
                         start_num, x_pos, y_pos>>
       \/ /\ \E sp \in StampParams :
                /\ sp.start # start_num
                /\ start_num' = sp.start /\ x_pos' = sp.x /\ y_pos' = sp.y
          /\ UNCHANGED <<master_pdf_file, multi_pdf_file, front_x, front_y>>
    /\ UNCHANGED pc

Next == Click \/ FrontPage \/ BackPage \/ Finish \/ ScriptStart

Spec == Init /\ [][Next]_vars

----------------------------------------------------------------------------
(* Vocabulary of the properties *)

\* The content PDF's page count, and whether each file is a PDF.
N == Len(multi_pdf_file.objs)

MasterParses == master_pdf_file.present /\ master_pdf_file.header = "%PDF"

ContentParses == multi_pdf_file.present /\ multi_pdf_file.header = "%PDF"

MasterPageCount == Len(master_pdf_file.objs)

\* The script has stopped and rendered its result.
Terminal == pc = "idle" /\ outcome # "none"

\* This run of the script entered the for loop.
Ran == pc # "idle" \/ outcome = "success" \/ exc = "NoMediaBox"

\* Every page box the loop reads is there.
BoxesPresent ==
    /\ \A k \in 1..N : multi_pdf_file.objs[k][1] # NoBox
    /\ N >= 1 => /\ master_pdf_file.objs[1][1] # NoBox
                 /\ master_pdf_file.objs[2][1] # NoBox

\* The pages of the offered document.
OutputPages == IF download = <<>> THEN <<>> ELSE download[1].objs

DigitValue(c) ==
    CASE c = "0" -> 0 [] c = "1" -> 1 [] c = "2" -> 2 [] c = "3" -> 3
      [] c = "4" -> 4 [] c = "5" -> 5 [] c = "6" -> 6 [] c = "7" -> 7
      [] c = "8" -> 8 [] c = "9" -> 9

\* The integer a string of decimal digits denotes.
RECURSIVE ParseDecimal(_)
ParseDecimal(t) ==
    IF t = <<>> THEN 0
    ELSE 10 * ParseDecimal(SubSeq(t, 1, Len(t) - 1)) + DigitValue(t[Len(t)])

\* t is the plain decimal text of n: no leading zero.
IsDecimalOf(t, n) == t # <<>> /\ t[1] # "0" /\ ParseDecimal(t) = n

\* The drawing instructions of kind k among ops.
OpsOfKind(ops, k) == SelectSeq(ops, LAMBDA o : o.kind = k)

\* ops is the artwork of master page m followed by overlays of one kind.
OnTemplate(ops, m, kind) ==
    /\ ops # <<>>
    /\ ops[1] = Artwork("master", m)
    /\ \A q \in 2..Len(ops) : ops[q].kind = kind

----------------------------------------------------------------------------
(* C1: output length *)

\* C1: a run whose master PDF has at least 2 pages and whose content PDF has
\* N >= 0 pages (both parse, and every page box the loop reads is present)
\* ends without an error and offers a document of exactly 2 * N pages.
C1_OutputLength ==
    (/\ Terminal
     /\ MasterParses /\ ContentParses
     /\ MasterPageCount >= 2
     /\ BoxesPresent)
        => /\ outcome = "success" /\ exc = ""
           /\ Len(download) = 1
           /\ Len(OutputPages) = 2 * N

C1_Witness ==
    /\ Terminal /\ outcome = "success"
    /\ MasterPageCount >= 2 /\ N >= 2
    /\ Len(OutputPages) = 2 * N

----------------------------------------------------------------------------
(* C2: numbering *)

\* The texts of a page's drawing instructions.
TextsOn(ops) == OpsOfKind(ops, "text")

\* Any number on these drawing instructions is n, drawn once.
CarriesOnly(ops, n) ==
    /\ Len(TextsOn(ops)) <= 1
    /\ \A q \in 1..Len(TextsOn(ops)) : IsDecimalOf(TextsOn(ops)[q].text, n)

\* C2: the running number is start_num + i after i content pages; the stamp
\* rendered for back page j (counting from 1) is the decimal text of
\* start_num + j - 1, and no back page, in the writer or in the offered
\* document, carries any other number.
C2_Numbering ==
    Ran =>
        /\ number = start_num + i
        /\ Len(writer) >= 2 * i
        /\ \A j \in 1..i :
              /\ Len(heap[StampId(j)].ops) = 1
              /\ IsDecimalOf(heap[StampId(j)].ops[1].text, start_num + j - 1)
              /\ CarriesOnly(Deref(heap, writer[2 * j]).ops, start_num + j - 1)
        /\ outcome = "success" =>
              /\ Len(OutputPages) >= 2 * i
              /\ \A j \in 1..i :
                    CarriesOnly(OutputPages[2 * j][2], start_num + j - 1)

C2_Witness ==
    /\ outcome = "success" /\ N >= 2 /\ start_num = 9
    /\ Len(OutputPages) >= 4
    /\ Len(TextsOn(OutputPages[2][2])) = 1
    /\ TextsOn(OutputPages[2][2])[1].text = <<"9">>
    /\ Len(TextsOn(OutputPages[4][2])) = 1
    /\ TextsOn(OutputPages[4][2])[1].text = <<"1", "0">>

----------------------------------------------------------------------------
(* C3: front/back alternation *)

\* ops are those of the front of content page j: the front master's artwork
\* and at most the artwork of content page j.
IsFrontOf(ops, j) ==
    /\ OnTemplate(ops, 1, "content")
    /\ \A q \in 2..Len(ops) : ops[q].n = j

\* ops are those of the back of content page j: the back master's artwork and
\* at most the number of that page.
IsBackOf(ops, j) ==
    /\ OnTemplate(ops, 2, "text")
    /\ CarriesOnly(ops, start_num + j - 1)

\* C3: in every state of the loop the writer holds, in content order, the
\* front of page 1, its back, the front of page 2, its back, ...: 2 * i pages
\* at the head of the loop and one more, a front, between a front and its
\* back; the offered document is the same sequence with i = N.
C3_Alternation ==
    Ran =>
        /\ pc = "loop" \/ outcome = "success" => Len(writer) = 2 * i
        /\ pc = "back" => Len(writer) = 2 * i + 1
        /\ Len(writer) \in {2 * i, 2 * i + 1}
        /\ \A p \in 1..Len(writer) :
              IF p % 2 = 1
              THEN /\ writer[p] = FrontId((p + 1) \div 2)
                   /\ IsFrontOf(Deref(heap, writer[p]).ops, (p + 1) \div 2)
              ELSE /\ writer[p] = BackId(p \div 2)
                   /\ IsBackOf(Deref(heap, writer[p]).ops, p \div 2)
        /\ outcome = "success" =>
              /\ Len(OutputPages) = 2 * N
              /\ \A p \in 1..Len(OutputPages) :
                    IF p % 2 = 1
                    THEN IsFrontOf(OutputPages[p][2], (p + 1) \div 2)
                    ELSE IsBackOf(OutputPages[p][2], p \div 2)

C3_Witness ==
    /\ pc = "back" /\ i = 1 /\ Len(writer) = 3
    /\ writer = <<FrontId(1), BackId(1), FrontId(2)>>
    /\ Len(heap[FrontId(2)].ops) = 2

----------------------------------------------------------------------------
(* C4: a master with fewer than 2 pages *)

\* No front or back page object was built in this run.
NoPageBuilt ==
    \A k \in 1..MaxPages :
        /\ heap[FrontId(k)] = NullPage
        /\ heap[StampId(k)] = NullPage
        /\ heap[BackId(k)] = NullPage

\* The master PDF parses and has fewer than 2 pages.
MasterShort == MasterParses /\ MasterPageCount < 2

\* C4 as stated: with a master of fewer than 2 pages the run ends in the
\* invalid-master error, builds no page and offers nothing, whatever content
\* file was uploaded with it.
C4_AsStated ==
    (Terminal /\ MasterShort /\ multi_pdf_file.present)
        => /\ outcome = "invalid_master"
           /\ NoPageBuilt
           /\ download = <<>>

\* C4, amended: with a master of fewer than 2 pages no page is built and
\* nothing is offered, whatever the content file; the run ends in the
\* invalid-master error when the content file parses, and in the content
\* file's parse error when it does not (it is parsed before the page count
\* is looked at).
C4_InvalidMaster ==
    (Terminal /\ MasterShort /\ multi_pdf_file.present)
        => /\ NoPageBuilt
           /\ download = <<>>
           /\ pc = "idle"
           /\ IF ContentParses
              THEN outcome = "invalid_master" /\ exc = ""
              ELSE outcome = "exception" /\ exc = "PdfReadError"

C4_Witness ==
    /\ Terminal /\ MasterShort /\ MasterPageCount = 1
    /\ ContentParses /\ N >= 1
    /\ outcome = "invalid_master" /\ download = <<>> /\ NoPageBuilt

----------------------------------------------------------------------------
(* C5, C6: placement of the content page on the front master *)

\* The boxes the front of content page i + 1 is placed with.
FrontMasterBox == master_pdf_file.objs[1][1]

ContentBox == multi_pdf_file.objs[i + 1][1]

\* The float v is (m - p) / 2.
IsCentered(v, m, p) == v[2] \in {1, 2} /\ 2 * v[1] = (m - p) * v[2]

\* The float v is the integer n.
IsValue(v, n) == v[2] \in {1, 2} /\ v[1] = n * v[2]

\* The front page added last: its overlay, if the translated merge was
\* accepted, lies at (fx, fy).
OverlaidAt(ox, oy) ==
    LET ops == Deref(heap, writer[Len(writer)]).ops
    IN  env.translated =>
            /\ Len(ops) = 2
            /\ ops[2].x = ox /\ ops[2].y = oy

\* C5 as stated: whenever neither front_x nor front_y is -1, the offset is
\* (front_x, front_y).
C5_AsStated ==
    (pc = "back" /\ front_x # -1 /\ front_y # -1)
        => IsValue(fx, front_x) /\ IsValue(fy, front_y)

\* C5, amended: whenever front_x and front_y are both non-negative, the
\* offset is exactly (front_x, front_y), whatever the boxes of the content
\* page and the master are.
C5_ExplicitPlacement ==
    (pc = "back" /\ front_x >= 0 /\ front_y >= 0)
        => /\ IsValue(fx, front_x) /\ IsValue(fy, front_y)
           /\ OverlaidAt(Real(front_x), Real(front_y))

C5_Witness ==
    /\ pc = "back" /\ i = 1
    /\ front_x = 7 /\ front_y = 0
    /\ fx = Real(7) /\ fy = Real(0)
    /\ env.translated
    /\ multi_pdf_file.objs[1][1] # multi_pdf_file.objs[2][1]

\* C6 as stated: per axis, the offset is centered when the widget value is
\* -1 and is the widget value otherwise.
C6_AsStated ==
    pc = "back"
        => /\ IF front_x = -1
              THEN IsCentered(fx, FrontMasterBox[1], ContentBox[1])
              ELSE IsValue(fx, front_x)
           /\ IF front_y = -1
              THEN IsCentered(fy, FrontMasterBox[2], ContentBox[2])
              ELSE IsValue(fy, front_y)

\* C6, amended: per axis, the offset is (master size - content page size) / 2
\* when the widget value is negative (-1 or any other negative value), and
\* is the widget value otherwise; each axis is resolved on its own, from the
\* size of the content page being placed.
C6_AutoCenter ==
    pc = "back"
        => /\ IF front_x < 0
              THEN IsCentered(fx, FrontMasterBox[1], ContentBox[1])
              ELSE IsValue(fx, front_x)
           /\ IF front_y < 0
              THEN IsCentered(fy, FrontMasterBox[2], ContentBox[2])
              ELSE IsValue(fy, front_y)
           /\ OverlaidAt(fx, fy)

C6_Witness ==
    /\ pc = "back" /\ i = 1
    /\ front_x = -1 /\ front_y = 7
    /\ FrontMasterBox = <<200, 300>> /\ ContentBox = <<181, 320>>
    /\ fx = <<19, 2>> /\ fy = Real(7)
    /\ multi_pdf_file.objs[1][1] = <<180, 280>>

----------------------------------------------------------------------------
(* C7: no partial output *)

\* C7: a document is offered at most once per run, only by a run that ended
\* in success after all N content pages, and it is the 2 * N pages the writer
\* holds; a run that ended in an error offers nothing, however many pages its
\* writer had received.
C7_NoPartialOutput ==
    /\ Len(download) <= 1
    /\ outcome = "success" <=> download # <<>>
    /\ outcome \in {"upload_error", "invalid_master", "exception"}
          => download = <<>>
    /\ download # <<>> =>
          /\ pc = "idle"
          /\ i = N
          /\ Len(download[1].objs) = 2 * N
          /\ Len(writer) = 2 * N
          /\ PdfReader(download[1]).ok
          /\ PdfReader(download[1]).pages = PagesOf(heap, writer)

C7_Witness ==
    /\ Terminal /\ outcome = "exception" /\ exc = "NoMediaBox"
    /\ N = 2 /\ i = 1 /\ Len(writer) >= 2
    /\ download = <<>>

----------------------------------------------------------------------------
(* C8: runs do not share state *)

\* C8: whatever button presses came before (none, failed ones, ones that
\* added pages), a run starts from an empty writer and from its own start
\* number: at every point of it the writer holds only the pages this run
\* built (2 * i or 2 * i + 1 of them), the running number is this run's
\* start_num + i, the first stamp is this run's start_num, and a successful
\* run offers 2 * N pages.
C8_RunsIndependent ==
    \A earlier \in BOOLEAN :
        (prior = earlier /\ Ran) =>
            /\ Len(writer) \in {2 * i, 2 * i + 1}
            /\ \A p \in 1..Len(writer) :
                  /\ writer[p] \in {FrontId((p + 1) \div 2), BackId(p \div 2)}
                  /\ heap[writer[p]] # NullPage
            /\ number = start_num + i
            /\ i >= 1 => IsDecimalOf(heap[StampId(1)].ops[1].text, start_num)
            /\ outcome = "success" => Len(OutputPages) = 2 * N

C8_Witness ==
    /\ prior /\ outcome = "success"
    /\ N >= 1 /\ start_num = 9
    /\ Len(OutputPages) = 2 * N
    /\ Len(TextsOn(OutputPages[2][2])) = 1
    /\ TextsOn(OutputPages[2][2])[1].text = <<"9">>

----------------------------------------------------------------------------
(* C9: the merge fallback ladder *)

\* The page added last.
LastPage == Deref(heap, writer[Len(writer)])

\* The artwork of content page k, moved by (tx, ty).
ContentAt(k, tx, ty) == [Artwork("content", k) EXCEPT !.x = tx, !.y = ty]

\* C9: for the front composed last, the overlay lies at (fx, fy) when the
\* translated merge was accepted, at (0, 0) when only the untranslated merge
\* was, and is missing when neither was; for the back composed last, the
\* stamp is on the page when either merge was accepted and missing when
\* neither was.  Either way one page was added, the number advanced, and the
\* only exceptions a run ends in are a parse error and a missing page box.
C9_FallbackLadder ==
    /\ pc = "back" =>
          /\ Len(writer) = 2 * i + 1
          /\ LastPage.ops =
                IF env.translated
                THEN <<Artwork("master", 1), ContentAt(i + 1, fx, fy)>>
                ELSE IF env.plain
                THEN <<Artwork("master", 1), ContentAt(i + 1, Zero, Zero)>>
                ELSE <<Artwork("master", 1)>>
    /\ (pc = "loop" /\ i >= 1) =>
          /\ Len(writer) = 2 * i
          /\ number = start_num + i
          /\ LastPage.ops =
                IF env.plain \/ env.translated
                THEN <<Artwork("master", 2)>> \o heap[StampId(i)].ops
                ELSE <<Artwork("master", 2)>>
    /\ exc \in {"", "PdfReadError", "NoMediaBox"}
    /\ (outcome = "success" /\ N >= 1) =>
          /\ Len(OutputPages) = 2 * N
          /\ OutputPages[2 * N][2] =
                IF env.plain \/ env.translated
                THEN <<Artwork("master", 2)>> \o heap[StampId(N)].ops
                ELSE <<Artwork("master", 2)>>

C9_Witness ==
    /\ outcome = "success" /\ N = 2
    /\ Len(OutputPages) = 4
    /\ OutputPages[1][2] = <<Artwork("master", 1)>>
    /\ OutputPages[2][2] = <<Artwork("master", 2)>>
    /\ OutputPages[3][2] =
          <<Artwork("master", 1), ContentAt(2, Zero, Zero)>>
    /\ fx # Zero
    /\ Len(OutputPages[4][2]) = 2

----------------------------------------------------------------------------
(* C10: the templates are never changed *)

\* The page object with id `id` is page k of the uploaded file f.
IsPageOf(id, f, k) ==
    heap[id] = [box |-> f.objs[k][1], ops |-> f.objs[k][2]]

\* C10: throughout a run every master page and every content page is as it
\* was parsed from its file, every front holds the front master's artwork and
\* at most the one overlay of its own content page, and every back holds the
\* back master's artwork and at most the one number of its own page.
C10_TemplatesPristine ==
    Ran =>
        /\ \A k \in 1..MasterPageCount :
              IsPageOf(MasterId(k), master_pdf_file, k)
        /\ \A k \in 1..N : IsPageOf(ContentId(k), multi_pdf_file, k)
        /\ \A p \in 1..Len(writer) :
              LET ops == Deref(heap, writer[p]).ops
              IN  /\ Len(ops) \in {1, 2}
                  /\ IF p % 2 = 1
                     THEN IsFrontOf(ops, (p + 1) \div 2)
                     ELSE IsBackOf(ops, p \div 2)

C10_Witness ==
    /\ outcome = "success" /\ N = 2
    /\ Len(writer) = 4
    /\ \A p \in 1..4 : Len(Deref(heap, writer[p]).ops) = 2
    /\ IsPageOf(MasterId(1), master_pdf_file, 1)
    /\ IsPageOf(MasterId(2), master_pdf_file, 2)

============================================================================
